---- MODULE Spec2Model ----
(***************************************************************************)
(* A state-machine model of the taktician minimax engine (ai/minimax.go):  *)
(* the iterative-deepening driver Analyze, the recursive pvSearch and      *)
(* zwSearch routines with their call stack made explicit, the two-slot     *)
(* transposition table, the history and response tables, AnalyzeAll and    *)
(* GetMove, and the one-shot signaller that sets the cancellation flag.    *)
(* The game is Tak restricted to flat stones on a small board: placements, *)
(* and in one family of games also the moves of a flat to an empty         *)
(* neighbouring square.                                                    *)
(***************************************************************************)
EXTENDS Integers, Sequences, FiniteSets, TLC

(***************************************************************************)
(* Program constants (ai/minimax.go:17-29, 70-74, 190).                    *)
(***************************************************************************)
MaxEval == 1073741824
MinEval == -MaxEval
WinThreshold == 536870912
tableSize == 1048576
maxDepth == 15
multiCutSearch == 6
multiCutThreshold == 3
lowerBound == 0
exactBound == 1
upperBound == 2
\* hashMul = 0x61C8864680B583EB; only its low 20 bits reach (h * hashMul) %
\* tableSize, because tableSize divides 2^64: 0x583EB = 361451.
hashMul == 361451

(***************************************************************************)
(* Bounds of the model.                                                    *)
(***************************************************************************)
\* Largest configured search depth (MinimaxConfig.Depth) an engine is built with.
MaxCfgDepth == 3
\* Number of top-level calls (Analyze / AnalyzeAll / GetMove) made on one engine.
MaxCalls == 2

(***************************************************************************)
(* The game: positions of tak.Position restricted to flats.                *)
(* A position is [size, board, move, ws, bs, hash]: board[i] is 0 (empty),  *)
(* 1 (white flat) or 2 (black flat); ws/bs are the reserves; hash is the   *)
(* incrementally kept Position.hash.  The field slides is not part of the  *)
(* program: it tells whether the game is played with one-stone slides.     *)
(***************************************************************************)
White == 1
Black == 2
NoColor == 0

\* Moves: NoMove is the zero tak.Move (never legal), PassMove is
\* tak.Move{Type: tak.Pass}, s in 1..size*size places a flat on square s,
\* and Slide(s, t) moves the flat on square s to square t (a slide of one
\* stone, Slides = [1]).
NoMove == -1
PassMove == 0

Slide(s, t) == 100 * s + t

IsSlide(m) == m >= 100

Origin(m) == m \div 100

Dest(m) == m % 100

Squares(n) == 1 .. (n * n)

Size(p) == p.size

ToMove(p) == IF p.move % 2 = 0 THEN White ELSE Black

WhiteStones(p) == p.ws

BlackStones(p) == p.bs

Col(n, s) == (s - 1) % n
Row(n, s) == (s - 1) \div n

Adjacent(n, s, t) ==
    \/ Row(n, s) = Row(n, t) /\ (Col(n, s) - Col(n, t)) \in {-1, 1}
    \/ Col(n, s) = Col(n, t) /\ (Row(n, s) - Row(n, t)) \in {-1, 1}

\* The squares of `own` joined to `seen`: seen with its neighbours in own.
Grow(n, seen, own) ==
    seen \cup {s \in own : \E t \in seen : Adjacent(n, s, t)}

RECURSIVE Flood(_, _, _)
Flood(n, seen, own) ==
    IF Grow(n, seen, own) = seen THEN seen
    ELSE UNION {Flood(n, g, own) : g \in {Grow(n, seen, own)}}

\* A colour has a road when one of its groups touches two opposite edges.
RoadOf(p, c) ==
    LET n == p.size
        own == {s \in Squares(n) : p.board[s] = c}
        top == {s \in own : Row(n, s) = 0}
        bottom == {s \in own : Row(n, s) = n - 1}
        left == {s \in own : Col(n, s) = 0}
        right == {s \in own : Col(n, s) = n - 1}
    IN  \/ Flood(n, top, own) \cap bottom # {}
        \/ Flood(n, left, own) \cap right # {}

\* hasRoad: <<colour, ok>>; when both colours have a road the side that just
\* moved wins.
hasRoad(p) ==
    LET white == RoadOf(p, White)
        black == RoadOf(p, Black)
    IN  IF white /\ black
        THEN (IF ToMove(p) = White THEN <<Black, TRUE>> ELSE <<White, TRUE>>)
        ELSE IF white THEN <<White, TRUE>>
        ELSE IF black THEN <<Black, TRUE>>
        ELSE <<White, FALSE>>

countFlats(p, c) == Cardinality({s \in Squares(p.size) : p.board[s] = c})

flatsWinner(p) ==
    LET cw == countFlats(p, White)
        cb == countFlats(p, Black)
    IN  IF cw > cb THEN White ELSE IF cb > cw THEN Black ELSE NoColor

\* GameOver: <<over, winner>>.
GameOver(p) ==
    LET r == hasRoad(p)
    IN  IF r[2] THEN <<TRUE, r[1]>>
        ELSE IF /\ p.ws # 0
                /\ p.bs # 0
                /\ \E s \in Squares(p.size) : p.board[s] = 0
             THEN <<FALSE, NoColor>>
             ELSE <<TRUE, flatsWinner(p)>>

Occupied(p) == Cardinality({s \in Squares(p.size) : p.board[s] # 0})

\* Position.hash: the XOR of the per-square hashes of the occupied squares,
\* kept up to date by Position.set, so it is a function of the board alone
\* and the empty board hashes to 0.  The per-square keys are drawn at random
\* at start-up; the model takes the base-3 code of the board, spread by
\* hashing scheme hs: scheme 0 gives every board its own primary slot,
\* scheme 1 folds the boards onto sixteen primary slots (distinct keys that
\* agree modulo tableSize), scheme 2 onto 3^7 of them, so that the boards
\* that agree on the last seven squares share a slot, scheme 3 onto the
\* sixteen slots a sixteenth of the table apart, slot 0 and the slot in the
\* middle of the table among them.
RECURSIVE BoardCode(_, _)
BoardCode(b, k) == IF k = 0 THEN 0 ELSE b[k] + 3 * BoardCode(b, k - 1)

HashOf(hs, b) ==
    LET c == BoardCode(b, Len(b))
    IN  IF hs = 0 THEN c
        ELSE IF c = 0 THEN 0
        ELSE IF hs = 3 THEN c * (tableSize \div 16)
        ELSE LET n == IF hs = 1 THEN 16 ELSE 2187
             IN  (c \div n) * tableSize + (c % n) + 1

\* MovePreallocated: <<ok, child>>.  A pass hands the move to the other side;
\* a placement needs an empty square and a stone in reserve.  Most games of
\* the model are played with placements only; in a game with p.slides the
\* side to move may also move one of its flats to an adjacent empty square.
MoveOK(p, m) ==
    \/ m = PassMove
    \/ /\ m \in Squares(p.size)
       /\ p.board[m] = 0
       /\ (IF ToMove(p) = White THEN p.ws ELSE p.bs) > 0
    \/ /\ p.slides
       /\ IsSlide(m)
       /\ Origin(m) \in Squares(p.size)
       /\ Dest(m) \in Squares(p.size)
       /\ Adjacent(p.size, Origin(m), Dest(m))
       /\ p.board[Origin(m)] = ToMove(p)
       /\ p.board[Dest(m)] = 0

ApplyMove(hs, p, m) ==
    IF m = PassMove THEN [p EXCEPT !.move = @ + 1]
    ELSE IF IsSlide(m)
    THEN LET b == [p.board EXCEPT ![Origin(m)] = 0, ![Dest(m)] = ToMove(p)]
         IN  [p EXCEPT !.board = b, !.move = @ + 1, !.hash = HashOf(hs, b)]
    ELSE [p EXCEPT !.board[m] = ToMove(p),
                   !.move = @ + 1,
                   !.ws = IF ToMove(p) = White THEN @ - 1 ELSE @,
                   !.bs = IF ToMove(p) = Black THEN @ - 1 ELSE @,
                   !.hash = HashOf(hs, [p.board EXCEPT ![m] = ToMove(p)])]

\* Position.AllMoves: the placements in square order, then the slides by
\* origin and destination.
AllMoves(p) ==
    LET n == p.size * p.size
    IN  SelectSeq([s \in 1 .. n |-> s], LAMBDA s : MoveOK(p, s))
        \o SelectSeq([k \in 1 .. (n * n) |->
                         Slide(((k - 1) \div n) + 1, ((k - 1) % n) + 1)],
                     LAMBDA m : MoveOK(p, m))

\* The evaluator: negamax sign; a decided game is worth MaxEval less the move
\* number to the winner, a drawn one 0; otherwise the weighted stone balance.
Evaluate(w, p) ==
    LET g == GameOver(p)
        me == ToMove(p)
        sum[k \in 0 .. Len(p.board)] ==
            IF k = 0 THEN 0
            ELSE sum[k - 1] + (IF p.board[k] = 0 THEN 0
                               ELSE IF p.board[k] = me THEN w[k] ELSE -w[k])
    IN  IF g[1]
        THEN (IF g[2] = NoColor THEN 0
              ELSE IF g[2] = me THEN MaxEval - p.move
              ELSE MinEval + p.move)
        ELSE sum[Len(p.board)]

(***************************************************************************)
(* The transposition table: a function from the slots in use to entries;   *)
(* every other slot holds the zero tableEntry.  The fields wr and pos are  *)
(* not part of the program: wr records whether the node that wrote the     *)
(* entry had seen a child search abandoned, pos the position of that node. *)
(***************************************************************************)
EmptyEntry ==
    [hash |-> 0, depth |-> 0, value |-> 0, bound |-> lowerBound, m |-> NoMove,
     wr |-> FALSE, pos |-> <<>>]

Slot1(h) == h % tableSize

Slot2(h) ==
    LET a == h % tableSize
        a0 == a % 1024
        a1 == a \div 1024
        k0 == hashMul % 1024
        k1 == hashMul \div 1024
    IN  (a0 * k0 + 1024 * ((a1 * k0 + a0 * k1) % 1024)) % tableSize

At(t, i) == IF i \in DOMAIN t THEN t[i] ELSE EmptyEntry

Put(t, i, e) == (i :> e) @@ t

NilSlot == -1

\* ttGet: the slot holding key h, or NilSlot.
ttGet(noTable, t, h) ==
    IF noTable THEN NilSlot
    ELSE IF At(t, Slot1(h)).hash = h THEN Slot1(h)
    ELSE IF At(t, Slot2(h)).hash = h THEN Slot2(h)
    ELSE NilSlot

\* A ttPut that shifts the primary entry down only when it belongs to
\* another key.
ttPut_ForeignOnly(noTable, cancelled, t, h) ==
    IF noTable THEN <<NilSlot, t>>
    ELSE IF cancelled THEN <<NilSlot, t>>
    ELSE <<Slot1(h),
           IF At(t, Slot1(h)).hash # 0 /\ At(t, Slot1(h)).hash # h
           THEN Put(t, Slot2(h), At(t, Slot1(h)))
           ELSE t>>

\* ttPut: <<slot to write or NilSlot, table after the displacement copy>>.
ttPut(noTable, cancelled, t, h) ==
    IF noTable THEN <<NilSlot, t>>
    ELSE IF cancelled THEN <<NilSlot, t>>
    ELSE <<Slot1(h),
           IF At(t, Slot1(h)).hash # 0
           THEN Put(t, Slot2(h), At(t, Slot1(h)))
           ELSE t>>

teSuffices(te, depth, alpha, beta) ==
    \/ /\ te.depth >= depth
       /\ \/ te.bound = exactBound
          \/ te.value < alpha /\ te.bound = upperBound
          \/ te.value > beta /\ te.bound = lowerBound
    \/ /\ te.bound = exactBound
       /\ (te.value > WinThreshold \/ te.value < -WinThreshold)

(***************************************************************************)
(* Engine state.                                                           *)
(***************************************************************************)
VARIABLES
    cfg,        \* MinimaxAI.cfg, with the evaluator weights w, the hashing scheme hs
                \* and whether the contexts of the calls carry a deadline
    table,      \* MinimaxAI.table
    history,    \* MinimaxAI.history: move hash -> counter
    response,   \* MinimaxAI.response: predecessor move hash -> move
    st,         \* MinimaxAI.st: the statistics of the running iteration
    stackm,     \* MinimaxAI.stack[ply].m
    cancel,     \* the int32 flag *MinimaxAI.cancel of the latest Analyze
    frames,     \* the active pvSearch / zwSearch invocations, root first
    ret,        \* the value the last returning invocation handed to its caller
    drv,        \* the running top-level call and the locals of Analyze
    res,        \* what the last finished top-level call returned
    calls,      \* number of top-level calls started
    draws,      \* number of values drawn from MinimaxAI.rand since Analyze seeded it
    obs         \* observations of the running call (not program state)

vars == <<cfg, table, history, response, st, stackm, cancel, frames, ret, drv,
          res, calls, draws, obs>>

engine == <<table, history, response, st, stackm, cancel, draws>>

ZeroStats ==
    [Depth |-> 0, Canceled |-> FALSE, Evaluated |-> 0, Scout |-> 0,
     Terminal |-> 0, Visited |-> 0, CutNodes |-> 0, NullSearch |-> 0,
     NullCut |-> 0, Cut0 |-> 0, Cut1 |-> 0, CutSearch |-> 0, ReSearch |-> 0,
     AllNodes |-> 0, TTHits |-> 0, TTShortcut |-> 0, ReducedSlides |-> 0,
     MCSearch |-> 0, MCCut |-> 0]

\* A Merge in which the argument's Depth and Canceled survive.
Merge_Argument(s, o) ==
    [o EXCEPT !.Evaluated = @ + s.Evaluated, !.Scout = @ + s.Scout,
              !.Terminal = @ + s.Terminal, !.Visited = @ + s.Visited,
              !.CutNodes = @ + s.CutNodes, !.NullSearch = @ + s.NullSearch,
              !.NullCut = @ + s.NullCut, !.Cut0 = @ + s.Cut0,
              !.Cut1 = @ + s.Cut1, !.CutSearch = @ + s.CutSearch,
              !.ReSearch = @ + s.ReSearch, !.AllNodes = @ + s.AllNodes,
              !.TTHits = @ + s.TTHits, !.TTShortcut = @ + s.TTShortcut,
              !.ReducedSlides = @ + s.ReducedSlides,
              !.MCSearch = @ + s.MCSearch, !.MCCut = @ + s.MCCut]

\* Stats.Merge: the receiver keeps its Depth and Canceled, the counters add up.
Merge(s, o) ==
    [s EXCEPT !.Evaluated = @ + o.Evaluated, !.Scout = @ + o.Scout,
              !.Terminal = @ + o.Terminal, !.Visited = @ + o.Visited,
              !.CutNodes = @ + o.CutNodes, !.NullSearch = @ + o.NullSearch,
              !.NullCut = @ + o.NullCut, !.Cut0 = @ + o.Cut0,
              !.Cut1 = @ + o.Cut1, !.CutSearch = @ + o.CutSearch,
              !.ReSearch = @ + o.ReSearch, !.AllNodes = @ + o.AllNodes,
              !.TTHits = @ + o.TTHits, !.TTShortcut = @ + o.TTShortcut,
              !.ReducedSlides = @ + o.ReducedSlides,
              !.MCSearch = @ + o.MCSearch, !.MCCut = @ + o.MCCut]

\* MakePrecise: the four heuristic-disabling flags.
MakePrecise(c) ==
    [c EXCEPT !.NoNullMove = TRUE, !.NoExtendForces = TRUE,
              !.NoReduceSlides = TRUE, !.NoMultiCut = TRUE]

\* NewMinimax: Depth 0 means maxDepth, RandomizeScale 0 means 1.
NewMinimax(c) ==
    [c EXCEPT !.Depth = IF @ = 0 THEN maxDepth ELSE @,
              !.RandomizeScale = IF @ = 0 THEN 1 ELSE @]

Hash(p) == p.hash

Hist(h, m) == IF m \in DOMAIN h THEN h[m] ELSE 0

Resp(r, m) == IF m \in DOMAIN r THEN r[m] ELSE NoMove

SetMap(f, k, v) == (k :> v) @@ f

\* 1 << uint(k) on a 64-bit int: a negative k converts to a shift count of
\* 64 or more, which shifts the bit out.
RECURSIVE Pow2(_)
Pow2(k) == IF k < 0 THEN 0 ELSE IF k = 0 THEN 1 ELSE 2 * Pow2(k - 1)

(***************************************************************************)
(* The ordered move generator (ai/move_generator.go is not among the       *)
(* sources; this follows the ordering contract of the design): the table   *)
(* move first when an entry was found, else the head of the PV hint; then  *)
(* the response to the predecessor's move; then the remaining moves by     *)
(* descending history counter (generation order under NoSort).  Candidates *)
(* that do not apply are skipped, and no move is yielded twice.            *)
(***************************************************************************)
\* The moves ms by descending history counter, ties in the order of ms.
SortByHistory(h, ms) ==
    LET before(j, k) == \/ Hist(h, ms[j]) > Hist(h, ms[k])
                        \/ Hist(h, ms[j]) = Hist(h, ms[k]) /\ j < k
        rank(k) == Cardinality({j \in 1 .. Len(ms) : before(j, k)}) + 1
    IN  [i \in 1 .. Len(ms) |-> ms[CHOOSE k \in 1 .. Len(ms) : rank(k) = i]]

GenMoves(p, ply, te, pv, h, r, sm) ==
    LET first == SelectSeq(IF te.present THEN <<te.m>>
                           ELSE IF pv # <<>> THEN <<pv[1]>> ELSE <<>>,
                           LAMBDA m : MoveOK(p, m))
        reply == SelectSeq(IF ply > 0 THEN <<Resp(r, sm[ply - 1])>> ELSE <<>>,
                           LAMBDA m : MoveOK(p, m) /\ <<m>> # first)
        rest == SelectSeq(IF cfg.NoSort THEN AllMoves(p)
                          ELSE SortByHistory(h, AllMoves(p)),
                          LAMBDA m : <<m>> # first /\ <<m>> # reply)
    IN  first \o reply \o rest

(***************************************************************************)
(* Invocations of pvSearch and zwSearch.                                   *)
(***************************************************************************)
NoTe == [present |-> FALSE, m |-> NoMove]

NewFrame(fn, p, ply, depth, pv, alpha, beta, cut) ==
    [fn |-> fn, p |-> p, ply |-> ply, depth |-> depth, pv |-> pv,
     alpha |-> alpha, beta |-> beta, cut |-> cut,
     pc |-> "start", wk |-> "none", te |-> NoTe, moves |-> <<>>, mi |-> 0,
     best |-> <<>>, improved |-> FALSE, didCut |-> FALSE, i |-> 0,
     cuts |-> 0, inMC |-> FALSE, m |-> NoMove, taint |-> FALSE]

NoRet == [set |-> FALSE, nil |-> TRUE, ms |-> <<>>, v |-> 0,
          taint |-> FALSE, abandoned |-> FALSE]

\* A return of (ms, v); nil tells a nil slice from an empty one.
Return(nil, ms, v, taint, abandoned) ==
    [set |-> TRUE, nil |-> nil, ms |-> ms, v |-> v,
     taint |-> taint, abandoned |-> abandoned]

Top == frames[Len(frames)]

Pop == SubSeq(frames, 1, Len(frames) - 1)

SetTop(f) == [frames EXCEPT ![Len(frames)] = f]

\* Replace the running invocation by f and call g from it.
CallFrom(f, g) == Append(SetTop(f), g)

\* recordCut: <<statistics, history, response>> after a cut by move m, the
\* i-th child, at a node of remaining depth `depth` at ply `ply`.
recordCut(s, h, r, sm, m, i, depth, ply) ==
    <<[s EXCEPT !.CutNodes = @ + 1,
                !.Cut0 = IF i = 1 THEN @ + 1 ELSE @,
                !.Cut1 = IF i = 2 THEN @ + 1 ELSE @,
                !.CutSearch = IF i \notin {1, 2} THEN @ + i + 1 ELSE @],
      SetMap(h, m, Hist(h, m) + Pow2(depth)),
      IF ply > 0 THEN SetMap(r, sm[ply - 1], m) ELSE r>>

\* A search that never polls the flag.
Polled_Never(c) == FALSE

\* The flag as pvSearch and zwSearch poll it after a child (atomic.LoadInt32).
Polled(c) == c # 0

\* The terminal test of both routines: depth exhausted or game over.
AtLeaf(f) == f.depth <= 0 \/ GameOver(f.p)[1]

\* The table probe of both routines against the window (alpha, beta):
\* the entry that answers the node, if one does.
Probe(f, beta) ==
    LET slot == ttGet(cfg.NoTable, table, Hash(f.p))
        te == At(table, slot)
    IN  [hit |-> slot # NilSlot,
         cut |-> /\ slot # NilSlot
                 /\ teSuffices(te, f.depth, f.alpha, beta)
                 /\ MoveOK(f.p, te.m),
         stale |-> /\ slot # NilSlot
                   /\ teSuffices(te, f.depth, f.alpha, beta)
                   /\ ~MoveOK(f.p, te.m),
         te |-> te]

LeafStats(f) ==
    [st EXCEPT !.Evaluated = @ + 1,
               !.Terminal = IF GameOver(f.p)[1] THEN @ + 1 ELSE @]

\* Single-slide test of the slide reduction (642-648): a slide of one stack
\* that left its origin empty and makes up the whole destination, which in
\* a game of flats is every slide.
IsSingleSlide(m) == IsSlide(m)

nullMoveOK(ply, depth, p) ==
    /\ ~cfg.NoNullMove
    /\ ~(ply = 0 \/ depth < 3)
    /\ stackm[ply - 1] # PassMove
    /\ ~(WhiteStones(p) < 3 \/ BlackStones(p) < 3)
    /\ ~(Occupied(p) + 3 >= Len(p.board))

\* zwSearch past the null move: slide reduction, generator, multi-cut entry.
ZwPrepare(f, s) ==
    LET red == /\ ~cfg.NoReduceSlides
               /\ f.ply > 0
               /\ IsSingleSlide(stackm[f.ply - 1])
        d == IF red THEN f.depth - 2 ELSE f.depth
        mc == f.cut /\ d > 3 /\ ~cfg.NoMultiCut
    IN  <<[f EXCEPT !.depth = d,
                    !.moves = GenMoves(f.p, f.ply, f.te, f.pv, history,
                                       response, stackm),
                    !.mi = 0, !.i = 0, !.cuts = 0, !.inMC = mc,
                    !.best = f.pv, !.didCut = FALSE, !.pc = "loop"],
          [s EXCEPT !.ReducedSlides = IF red THEN @ + 1 ELSE @,
                    !.MCSearch = IF mc THEN @ + 1 ELSE @]>>

(***************************************************************************)
(* Enter: an invocation runs from its first line to its first child call   *)
(* or early return (pvSearch 488-531, zwSearch 601-639).                   *)
(***************************************************************************)
EnterPv(f) ==
    \E pr \in {Probe(f, f.beta)} :
    LET s1 == [st EXCEPT !.Visited = @ + 1,
                         !.Scout = IF f.beta = f.alpha + 1 THEN @ + 1 ELSE @,
                         !.TTHits = IF pr.hit THEN @ + 1 ELSE @]
        te == IF pr.hit /\ ~pr.stale
              THEN [present |-> TRUE, m |-> pr.te.m] ELSE NoTe
    IN  IF AtLeaf(f)
        THEN /\ st' = LeafStats(f)
             /\ frames' = Pop
             /\ ret' = Return(TRUE, <<>>, Evaluate(cfg.w, f.p), FALSE, FALSE)
             /\ UNCHANGED stackm
        ELSE IF pr.cut
        THEN /\ st' = [s1 EXCEPT !.TTShortcut = @ + 1]
             /\ frames' = Pop
             /\ ret' = Return(FALSE, <<pr.te.m>>, pr.te.value, FALSE, FALSE)
             /\ UNCHANGED stackm
        ELSE /\ st' = s1
             /\ frames' = SetTop([f EXCEPT
                    !.te = te,
                    !.moves = GenMoves(f.p, f.ply, te, f.pv, history,
                                       response, stackm),
                    !.mi = 0, !.i = 0, !.best = f.pv, !.improved = FALSE,
                    !.pc = "loop"])
             /\ UNCHANGED <<ret, stackm>>

EnterZw(f) ==
    \E pr \in {Probe(f, f.alpha + 1)} :
    LET s1 == [st EXCEPT !.Visited = @ + 1, !.Scout = @ + 1,
                         !.TTHits = IF pr.hit THEN @ + 1 ELSE @]
        te == IF pr.hit /\ ~pr.stale
              THEN [present |-> TRUE, m |-> pr.te.m] ELSE NoTe
        g == [f EXCEPT !.te = te]
    IN  IF AtLeaf(f)
        THEN /\ st' = LeafStats(f)
             /\ frames' = Pop
             /\ ret' = Return(TRUE, <<>>, Evaluate(cfg.w, f.p), FALSE, FALSE)
             /\ UNCHANGED stackm
        ELSE IF pr.cut
        THEN /\ st' = [s1 EXCEPT !.TTShortcut = @ + 1]
             /\ frames' = Pop
             /\ ret' = Return(FALSE, <<pr.te.m>>, pr.te.value, FALSE, FALSE)
             /\ UNCHANGED stackm
        ELSE IF nullMoveOK(f.ply, f.depth, f.p)
        THEN /\ stackm' = [stackm EXCEPT ![f.ply] = PassMove]
             /\ st' = [s1 EXCEPT !.NullSearch = @ + 1]
             /\ frames' = CallFrom([g EXCEPT !.pc = "wait", !.wk = "null",
                                             !.m = PassMove],
                    NewFrame("zw", ApplyMove(cfg.hs, f.p, PassMove), f.ply + 1,
                             f.depth - 3, <<>>, -f.alpha - 1, -f.alpha, TRUE))
             /\ UNCHANGED ret
        ELSE /\ st' = ZwPrepare(g, s1)[2]
             /\ frames' = SetTop(ZwPrepare(g, s1)[1])
             /\ UNCHANGED <<ret, stackm>>

\* The driver between two calls.
Idle ==
    [op |-> "none", pc |-> "idle", p |-> <<>>, limited |-> FALSE,
     ms |-> <<>>, v |-> 0, base |-> 0, i |-> 0, st |-> ZeroStats,
     moves |-> <<>>, mi |-> 0, m |-> NoMove, rv |-> NoMove, out |-> <<>>,
     tot |-> 0]

\* The record of a call that has ended.
Result(op, p, panic, move, out) ==
    [op |-> op, p |-> p, panic |-> panic, move |-> move, out |-> out,
     an |-> obs.an, posts |-> obs.posts, cvs |-> obs.cvs, draws |-> draws,
     sig |-> obs.sig]

\* The search stack is an array of maxDepth frames (47-55): an invocation
\* past the terminal test at a ply beyond it fails on its first access to
\* stack[ply] (506, 519; 617, 628, 654) with index out of range.
OffStack(f) == ~AtLeaf(f) /\ ~(f.ply < maxDepth)

Enter ==
    /\ frames # <<>>
    /\ Top.pc = "start"
    /\ IF OffStack(Top)
       THEN /\ res' = Append(res, Result(drv.op, drv.p, "index out of range",
                                         NoMove, drv.out))
            /\ drv' = [Idle EXCEPT !.pc = "panic"]
            /\ frames' = <<>>
            /\ UNCHANGED <<st, ret, stackm>>
       ELSE /\ IF Top.fn = "pv" THEN EnterPv(Top) ELSE EnterZw(Top)
            /\ UNCHANGED <<drv, res>>
    /\ UNCHANGED <<cfg, table, history, response, cancel, calls, draws, obs>>

(***************************************************************************)
(* NextChild: the head of a child loop: mg.Next(), then the call of the    *)
(* child search, or the end of the loop (pvSearch 533-550, zwSearch        *)
(* 669-671 and 682-697).                                                   *)
(***************************************************************************)
HasNext(f) == f.mi < Len(f.moves)

NextMove(f) == f.moves[f.mi + 1]

\* The PV hint handed to a child: best[1:] when best is not empty.
NewPv(best) == IF Len(best) # 0 THEN Tail(best) ELSE <<>>

NextPv(f) ==
    IF ~HasNext(f)
    THEN /\ frames' = SetTop([f EXCEPT !.pc = "store"])
         /\ UNCHANGED stackm
    ELSE LET m == NextMove(f)
             g == [f EXCEPT !.mi = @ + 1, !.i = @ + 1, !.m = m, !.pc = "wait",
                            !.wk = IF f.i + 1 > 1 THEN "scout" ELSE "first"]
             child == ApplyMove(cfg.hs, f.p, m)
         IN  /\ stackm' = [stackm EXCEPT ![f.ply] = m]
             /\ frames' = CallFrom(g,
                    IF f.i + 1 > 1
                    THEN NewFrame("zw", child, f.ply + 1, f.depth - 1,
                                  NewPv(f.best), -f.alpha - 1, -f.alpha, TRUE)
                    ELSE NewFrame("pv", child, f.ply + 1, f.depth - 1,
                                  NewPv(f.best), -f.beta, -f.alpha, FALSE))

\* A multi-cut scan at the depth of the main loop.
McDepth_Full(depth) == depth - 1

\* The depth of the children of the multi-cut scan (671).
McDepth(depth) == depth - 1 - 2

NextZw(f) ==
    IF f.inMC
    THEN IF HasNext(f) /\ f.i < multiCutSearch
         THEN /\ frames' = CallFrom(
                    [f EXCEPT !.mi = @ + 1, !.i = @ + 1, !.pc = "wait",
                              !.wk = "mc"],
                    NewFrame("zw", ApplyMove(cfg.hs, f.p, NextMove(f)), f.ply + 1,
                             McDepth(f.depth), <<>>, -f.alpha - 1, -f.alpha,
                             ~f.cut))
              /\ UNCHANGED stackm
         ELSE \* mg.Reset() and the set-up of the main loop
              /\ frames' = SetTop([f EXCEPT !.inMC = FALSE, !.mi = 0, !.i = 0])
              /\ UNCHANGED stackm
    ELSE IF ~HasNext(f)
    THEN /\ frames' = SetTop([f EXCEPT !.pc = "store"])
         /\ UNCHANGED stackm
    ELSE LET m == NextMove(f)
         IN  /\ stackm' = [stackm EXCEPT ![f.ply] = m]
             /\ frames' = CallFrom(
                    [f EXCEPT !.mi = @ + 1, !.i = @ + 1, !.m = m,
                              !.pc = "wait", !.wk = "main"],
                    NewFrame("zw", ApplyMove(cfg.hs, f.p, m), f.ply + 1, f.depth - 1,
                             NewPv(f.best), -f.alpha - 1, -f.alpha, ~f.cut))

NextChild ==
    /\ frames # <<>>
    /\ Top.pc = "loop"
    /\ IF Top.fn = "pv" THEN NextPv(Top) ELSE NextZw(Top)
    /\ UNCHANGED <<cfg, table, history, response, st, cancel, ret, drv, res,
                   calls, draws, obs>>

(***************************************************************************)
(* Resume: the caller takes the child's return (pvSearch 543-574,          *)
(* zwSearch 632-638, 671-678 and 697-713).                                 *)
(***************************************************************************)
\* The abandoned return `return nil, 0`.
Abandon(f) == Return(TRUE, <<>>, 0, TRUE, TRUE)

\* A line that keeps the move and drops the child's continuation.
Line_MoveOnly(m, ms) == <<m>>

\* best = append(best[:0], m); best = append(best, ms...) (558-559, 563-564).
Line(m, ms) == <<m>> \o ms

\* pvSearch from `v = -v` to the end of the loop body.
PvTake(f, r) ==
    LET v == -r.v
        line == Line(f.m, r.ms)
        b1 == IF Len(f.best) = 0 THEN line ELSE f.best
        up == v > f.alpha
        a1 == IF up THEN v ELSE f.alpha
        g == [f EXCEPT !.best = IF up THEN line ELSE b1,
                       !.improved = @ \/ up,
                       !.alpha = a1,
                       !.taint = @ \/ r.taint \/ r.abandoned]
        rc == recordCut(st, history, response, stackm, f.m, f.i, f.depth, f.ply)
    IN  IF up /\ a1 >= f.beta
        THEN /\ st' = rc[1] /\ history' = rc[2] /\ response' = rc[3]
             /\ frames' = SetTop([g EXCEPT !.pc = "store"])
             /\ ret' = NoRet
        ELSE IF Polled(cancel)
        THEN /\ frames' = Pop
             /\ ret' = Abandon(g)
             /\ UNCHANGED <<st, history, response>>
        ELSE /\ frames' = SetTop([g EXCEPT !.pc = "loop"])
             /\ ret' = NoRet
             /\ UNCHANGED <<st, history, response>>

ResumePv(f, r) ==
    IF f.wk = "scout" /\ -r.v > f.alpha /\ -r.v < f.beta
    THEN /\ st' = [st EXCEPT !.ReSearch = @ + 1]
         /\ frames' = CallFrom(
                [f EXCEPT !.wk = "research",
                          !.taint = @ \/ r.taint \/ r.abandoned],
                NewFrame("pv", ApplyMove(cfg.hs, f.p, f.m), f.ply + 1, f.depth - 1,
                         NewPv(f.best), -f.beta, -f.alpha, FALSE))
         /\ ret' = NoRet
         /\ UNCHANGED <<history, response>>
    ELSE PvTake(f, r)

ResumeZw(f, r) ==
    LET v == -r.v
        t == f.taint \/ r.taint \/ r.abandoned
        line == <<f.m>> \o r.ms
    IN  IF f.wk = "null"
        THEN IF v >= f.alpha + 1
             THEN /\ st' = [st EXCEPT !.NullCut = @ + 1]
                  /\ frames' = Pop
                  /\ ret' = Return(TRUE, <<>>, v, t, FALSE)
                  /\ UNCHANGED <<history, response>>
             ELSE /\ st' = ZwPrepare([f EXCEPT !.taint = t], st)[2]
                  /\ frames' = SetTop(ZwPrepare([f EXCEPT !.taint = t], st)[1])
                  /\ ret' = NoRet
                  /\ UNCHANGED <<history, response>>
        ELSE IF f.wk = "mc"
        THEN IF v > f.alpha /\ f.cuts + 1 >= multiCutThreshold
             THEN /\ st' = [st EXCEPT !.MCCut = @ + 1]
                  /\ frames' = Pop
                  /\ ret' = Return(TRUE, <<>>, f.alpha + 1, t, FALSE)
                  /\ UNCHANGED <<history, response>>
             ELSE /\ frames' = SetTop([f EXCEPT
                        !.cuts = IF v > f.alpha THEN @ + 1 ELSE @,
                        !.taint = t, !.pc = "loop"])
                  /\ ret' = NoRet
                  /\ UNCHANGED <<st, history, response>>
        ELSE LET b1 == IF Len(f.best) = 0 THEN line ELSE f.best
                 rc == recordCut(st, history, response, stackm, f.m, f.i,
                                 f.depth, f.ply)
             IN  IF v > f.alpha
                 THEN /\ st' = rc[1] /\ history' = rc[2] /\ response' = rc[3]
                      /\ frames' = SetTop([f EXCEPT !.best = line,
                                !.didCut = TRUE, !.taint = t, !.pc = "store"])
                      /\ ret' = NoRet
                 ELSE IF Polled(cancel)
                 THEN /\ frames' = Pop
                      /\ ret' = Abandon(f)
                      /\ UNCHANGED <<st, history, response>>
                 ELSE /\ frames' = SetTop([f EXCEPT !.best = b1, !.taint = t,
                                                    !.pc = "loop"])
                      /\ ret' = NoRet
                      /\ UNCHANGED <<st, history, response>>

Resume ==
    /\ frames # <<>>
    /\ Top.pc = "wait"
    /\ ret.set
    /\ IF Top.fn = "pv" THEN ResumePv(Top, ret) ELSE ResumeZw(Top, ret)
    /\ UNCHANGED <<cfg, table, stackm, cancel, drv, res, calls, draws, obs>>

(***************************************************************************)
(* Store: the table write after the child loop, and the return (pvSearch   *)
(* 577-593, zwSearch 716-732).                                             *)
(***************************************************************************)
\* A ttPut that does not look at the flag.
PutCancelled_Ignored(c) == FALSE

\* The flag as ttPut reads it.
PutCancelled(c) == c # 0

\* pvSearch's condition for overwriting the slot ttPut hands back.
PvOverwrites(te, hash, depth) == te.hash # hash \/ te.depth <= depth

\* A zwSearch that keeps a deeper entry of its own key, as pvSearch does.
ZwOverwrites_Deeper(te, hash, depth) == te.hash # hash \/ te.depth <= depth

\* zwSearch overwrites the slot whatever it holds.
ZwOverwrites(te, hash, depth) == TRUE

\* The bound zwSearch stores (722-727).
ZwBound(didCut) == IF didCut THEN lowerBound ELSE upperBound

StoreTable(f) ==
    LET hash == Hash(f.p)
        pt == ttPut(cfg.NoTable, PutCancelled(cancel), table, hash)
        slot == pt[1]
        te == At(pt[2], slot)
        bound == IF f.fn = "pv"
                 THEN (IF ~f.improved THEN upperBound
                       ELSE IF f.alpha >= f.beta THEN lowerBound
                       ELSE exactBound)
                 ELSE ZwBound(f.didCut)
        writes == /\ slot # NilSlot
                  /\ IF f.fn = "pv" THEN PvOverwrites(te, hash, f.depth)
                     ELSE ZwOverwrites(te, hash, f.depth)
    IN  [writes |-> writes,
         bound |-> bound,
         table |-> IF writes
                   THEN Put(pt[2], slot,
                            [hash |-> hash, depth |-> f.depth, value |-> f.alpha,
                             bound |-> bound, m |-> f.best[1], wr |-> f.taint,
                             pos |-> f.p])
                   ELSE pt[2]]

Store ==
    /\ frames # <<>>
    /\ Top.pc = "store"
    /\ LET f == Top
           w == StoreTable(f)
       IN  /\ table' = w.table
           /\ st' = [st EXCEPT !.AllNodes =
                        IF w.writes /\ w.bound = upperBound THEN @ + 1 ELSE @]
           /\ frames' = Pop
           /\ ret' = Return(FALSE, f.best,
                            IF f.fn = "zw" /\ f.didCut THEN f.alpha + 1
                            ELSE f.alpha,
                            f.taint, FALSE)
    /\ UNCHANGED <<cfg, history, response, stackm, cancel, drv, res, calls, draws, obs>>

(***************************************************************************)
(* The top-level calls.  drv holds the running call: its operation, the    *)
(* program counter of the driver, the locals of Analyze (ms, v, base, i,   *)
(* st) and those of the post-pass of AnalyzeAll / GetMove.                 *)
(***************************************************************************)
NoObs ==
    [sig |-> "none", seen |-> 0, good |-> [pv |-> <<>>, v |-> 0],
     depths |-> <<>>, stale |-> 0, adopted |-> 0, late |-> 0, posts |-> 0,
     cvs |-> <<>>, an |-> <<>>]

\* An entry that leaves the history counters as they are.
Aged_Keep(h) == h

\* The ageing of the history counters at the entry of Analyze.
Aged(h) == [k \in DOMAIN h |-> h[k] \div 2]

\* Analyze past its size check, to the head of the deepening loop (326-358).
AnalyzeStart(p) ==
    LET slot == ttGet(cfg.NoTable, table, Hash(p))
        te == At(table, slot)
        seeded == slot # NilSlot /\ te.bound = exactBound
    IN  [panic |-> FALSE, history |-> Aged(history), cancel |-> 0,
         draws |-> 0,
         base |-> IF seeded THEN te.depth ELSE 0,
         ms |-> IF seeded THEN <<te.m>> ELSE <<>>]

\* An Analyze that ages the history counters before it checks the size.
AnalyzeEntry_AgeFirst(p) ==
    IF cfg.Size # Size(p)
    THEN [panic |-> TRUE, history |-> Aged(history), cancel |-> cancel,
          draws |-> draws, base |-> 0, ms |-> <<>>]
    ELSE AnalyzeStart(p)

\* Analyze from its first line to the head of the deepening loop (322-358):
\* what it leaves of the engine state, and whether it panicked.
AnalyzeEntry(p) ==
    IF cfg.Size # Size(p)
    THEN [panic |-> TRUE, history |-> history, cancel |-> cancel,
          draws |-> draws, base |-> 0, ms |-> <<>>]
    ELSE AnalyzeStart(p)

\* The model follows an engine up to its first cancelled call: no call is
\* made once the context of an earlier one was cancelled.
Call(op, p, limited) ==
    /\ drv.pc = "idle"
    /\ calls < MaxCalls
    /\ obs.sig = "none"
    /\ calls' = calls + 1
    /\ LET e == AnalyzeEntry(p)
       IN  /\ history' = e.history
           /\ cancel' = e.cancel
           /\ draws' = e.draws
           /\ IF e.panic
              THEN /\ drv' = [Idle EXCEPT !.pc = "panic"]
                   /\ res' = Append(res,
                        [op |-> op, p |-> p, panic |-> "Analyze: wrong size",
                         move |-> NoMove, out |-> <<>>, an |-> <<>>,
                         posts |-> 0, cvs |-> <<>>, draws |-> e.draws,
                         sig |-> "none"])
                   /\ obs' = NoObs
              ELSE /\ drv' = [Idle EXCEPT !.op = op, !.pc = "iter", !.p = p,
                                          !.limited = limited, !.ms = e.ms,
                                          !.base = e.base, !.i = 1]
                   /\ obs' = [NoObs EXCEPT !.good = [pv |-> e.ms, v |-> 0]]
                   /\ UNCHANGED res
    /\ UNCHANGED <<cfg, table, response, st, stackm, frames, ret>>

\* The head of the deepening loop (361-365).
IterStart ==
    /\ drv.pc = "iter"
    /\ IF drv.i + drv.base <= cfg.Depth
       THEN /\ st' = [ZeroStats EXCEPT !.Depth = drv.i + drv.base]
            /\ frames' = <<NewFrame("pv", drv.p, 0, drv.i + drv.base, drv.ms,
                                    MinEval - 1, MaxEval + 1, FALSE)>>
            /\ ret' = NoRet
            /\ drv' = [drv EXCEPT !.pc = "search"]
            /\ obs' = [obs EXCEPT !.depths = Append(@, drv.i + drv.base),
                                  !.stale = IF cancel # 0 THEN @ + 1 ELSE @]
       ELSE /\ drv' = [drv EXCEPT !.pc = "fin"]
            /\ UNCHANGED <<st, frames, ret, obs>>
    /\ UNCHANGED <<cfg, table, history, response, stackm, cancel, res, calls,
                   draws>>

\* A driver that drops an iteration only when the search handed back nil.
IterCanceled_NilOnly(nextNil, c) == nextNil

\* The driver's test after an iteration (366): the iteration is dropped.
IterCanceled(nextNil, c) == nextNil \/ c # 0

\* The proved-win test that ends the deepening (413).
Proved(v) == v > WinThreshold \/ v < -WinThreshold

\* The body of the deepening loop after the root search returned (366-438).
\* Under a deadline the time estimate may end the loop after any iteration
\* but the last.
IterDone ==
    /\ drv.pc = "search"
    /\ frames = <<>>
    /\ ret.set
    /\ ret' = NoRet
    /\ IF IterCanceled(ret.nil, cancel)
       THEN /\ drv' = [drv EXCEPT !.st.Canceled = TRUE, !.pc = "fin"]
            /\ obs' = [obs EXCEPT !.seen = cancel]
       ELSE /\ \E stop \in BOOLEAN :
                /\ stop => \/ Proved(ret.v)
                           \/ drv.limited /\ drv.i + drv.base # cfg.Depth
                /\ ~stop => ~Proved(ret.v)
                /\ drv' = [drv EXCEPT !.v = ret.v,
                                      !.st = Merge(st, drv.st),
                                      !.ms = ret.ms,
                                      !.i = IF stop THEN @ ELSE @ + 1,
                                      !.pc = IF stop THEN "fin" ELSE "iter"]
            /\ obs' = [obs EXCEPT !.seen = cancel, !.adopted = @ + 1,
                                  !.late = IF cancel # 0 THEN @ + 1 ELSE @,
                                  !.good = IF ~ret.nil /\ cancel = 0
                                           THEN [pv |-> ret.ms, v |-> ret.v]
                                           ELSE @]
    /\ UNCHANGED <<cfg, table, history, response, st, stackm, cancel, frames,
                   res, calls, draws>>

\* rand.Int63n on the generator Analyze seeded with cfg.Seed, as the set of
\* values the k-th draw can give: one value for a fixed seed, any value of
\* [0, n) when the seed is the clock (Seed = 0).
Int63n(seed, k, n) ==
    IF seed = 0 THEN 0 .. (n - 1)
    ELSE {((seed + 1) * (k + 3) * 7 + k) % n}

\* What Analyze returned, with the observations made while it ran.
Outcome ==
    [pv |-> drv.ms, v |-> drv.v, st |-> drv.st, base |-> drv.base,
     seen |-> obs.seen, good |-> obs.good, sig |-> obs.sig,
     depths |-> obs.depths, stale |-> obs.stale, adopted |-> obs.adopted,
     late |-> obs.late]

\* GetMove returns pv[0] without a post-pass (244-249).
Bypass(window, v) == window = 0 \/ Proved(v)

\* The return of Analyze (440-441) and what its caller does next: Analyze
\* itself returns; GetMove (243-260) and AnalyzeAll (285-298) set up the
\* post-pass over the root children.
Finish ==
    /\ drv.pc = "fin"
    /\ LET o == [obs EXCEPT !.an = Outcome]
           mg == GenMoves(drv.p, 0, NoTe, drv.ms, history, response, stackm)
       IN  CASE drv.op = "Analyze" ->
                  /\ res' = Append(res,
                        [Result("Analyze", drv.p, "", NoMove, <<>>)
                           EXCEPT !.an = Outcome])
                  /\ drv' = Idle
                  /\ obs' = o
            [] drv.op = "GetMove" /\ Len(drv.ms) = 0 ->
                  /\ res' = Append(res,
                        [Result("GetMove", drv.p, "index out of range",
                                NoMove, <<>>) EXCEPT !.an = Outcome])
                  /\ drv' = [Idle EXCEPT !.pc = "panic"]
                  /\ obs' = o
            [] drv.op = "GetMove" /\ Len(drv.ms) # 0
                 /\ Bypass(cfg.RandomizeWindow, drv.v) ->
                  /\ res' = Append(res,
                        [Result("GetMove", drv.p, "", drv.ms[1], <<>>)
                           EXCEPT !.an = Outcome])
                  /\ drv' = Idle
                  /\ obs' = o
            [] drv.op = "GetMove" /\ Len(drv.ms) # 0
                 /\ ~Bypass(cfg.RandomizeWindow, drv.v) ->
                  /\ drv' = [drv EXCEPT !.pc = "post", !.rv = drv.ms[1],
                                        !.tot = 0, !.moves = mg, !.mi = 0]
                  /\ obs' = o
                  /\ UNCHANGED res
            [] drv.op = "AnalyzeAll" ->
                  /\ drv' = [drv EXCEPT !.pc = "post", !.out = <<drv.ms>>,
                                        !.moves = mg, !.mi = 0]
                  /\ obs' = o
                  /\ UNCHANGED res
    /\ UNCHANGED <<cfg, table, history, response, st, stackm, cancel, frames,
                   ret, calls, draws>>

\* The window of the child re-search of the post-pass: AnalyzeAll looks for
\* values equal to v (304), GetMove for values within the window (264).
PostWindow(op, v, window) ==
    IF op = "AnalyzeAll" THEN <<-v - 1, -v + 1>>
    ELSE <<-v - 1, -(v - window)>>

\* The head of the post-pass loop (262-264, 299-304).
PostNext ==
    /\ drv.pc = "post"
    /\ IF drv.mi >= Len(drv.moves)
       THEN /\ res' = Append(res,
                 Result(drv.op, drv.p, "",
                        IF drv.op = "GetMove" THEN drv.rv ELSE NoMove,
                        drv.out))
            /\ drv' = Idle
            /\ UNCHANGED <<stackm, frames, ret, obs>>
       ELSE LET m == drv.moves[drv.mi + 1]
                w == PostWindow(drv.op, drv.v, cfg.RandomizeWindow)
            IN  /\ stackm' = [stackm EXCEPT ![0] = m]
                /\ IF Len(drv.ms) = 0
                   THEN \* pv[1:] of an empty pv
                        /\ res' = Append(res,
                             Result(drv.op, drv.p,
                                    "slice bounds out of range", NoMove,
                                    drv.out))
                        /\ drv' = [Idle EXCEPT !.pc = "panic"]
                        /\ UNCHANGED <<frames, ret, obs>>
                   ELSE /\ frames' = <<NewFrame("pv", ApplyMove(cfg.hs, drv.p, m), 1,
                                                drv.st.Depth - 1, Tail(drv.ms),
                                                w[1], w[2], FALSE)>>
                        /\ ret' = NoRet
                        /\ drv' = [drv EXCEPT !.pc = "postwait", !.m = m,
                                              !.mi = @ + 1]
                        /\ obs' = [obs EXCEPT !.posts = @ + 1]
                        /\ UNCHANGED res
    /\ UNCHANGED <<cfg, table, history, response, st, cancel, calls, draws>>

\* An AnalyzeAll that does not skip the first move of the principal line.
Emits_NoSkip(m, cv, v, pv) == ~(cv # v)

\* AnalyzeAll emits the line of move m whose re-search gave cv (310-317).
Emits(m, cv, v, pv) == ~(cv # v) /\ ~(m = pv[1])

\* The body of the post-pass loop after the child re-search (266-278,
\* 305-317).
PostResume ==
    /\ drv.pc = "postwait"
    /\ frames = <<>>
    /\ ret.set
    /\ ret' = NoRet
    /\ LET cv == -ret.v
           o == [obs EXCEPT !.cvs = Append(@, <<drv.m, cv, ret.abandoned>>)]
           base == drv.v - cfg.RandomizeWindow
           pts == (cv - base) \div cfg.RandomizeScale
           tot == drv.tot + pts
       IN  IF drv.op = "AnalyzeAll"
           THEN /\ drv' = [drv EXCEPT !.pc = "post",
                        !.out = IF Emits(drv.m, cv, drv.v, drv.ms)
                                THEN Append(@, <<drv.m>> \o ret.ms) ELSE @]
                /\ obs' = o
                /\ UNCHANGED <<res, draws>>
           ELSE IF cv <= base
           THEN /\ drv' = [drv EXCEPT !.pc = "post"]
                /\ obs' = o
                /\ UNCHANGED <<res, draws>>
           ELSE IF tot <= 0
           THEN \* rand.Int63n panics on a non-positive argument
                /\ res' = Append(res,
                     Result("GetMove", drv.p, "invalid argument to Int63n",
                            NoMove, <<>>))
                /\ drv' = [Idle EXCEPT !.pc = "panic"]
                /\ obs' = o
                /\ UNCHANGED draws
           ELSE \E r \in Int63n(cfg.Seed, draws, tot) :
                /\ drv' = [drv EXCEPT !.pc = "post", !.tot = tot,
                                      !.rv = IF r <= pts THEN drv.m ELSE @]
                /\ draws' = draws + 1
                /\ obs' = o
                /\ UNCHANGED res
    /\ UNCHANGED <<cfg, table, history, response, st, stackm, cancel, frames,
                   calls>>

\* The signaller: the goroutine Analyze started stores 1 into the flag once
\* the context is done, at any moment of the running call.
Signal ==
    /\ drv.pc \notin {"idle", "panic"}
    /\ cancel = 0
    /\ cancel' = 1
    /\ obs' = [obs EXCEPT !.sig = IF drv.pc \in {"iter", "search", "fin"}
                                  THEN "analyze" ELSE "post"]
    /\ UNCHANGED <<cfg, table, history, response, st, stackm, frames, ret,
                   drv, res, calls, draws>>

(***************************************************************************)
(* Inputs: the engines and the positions the calls are made on.            *)
(***************************************************************************)
Pos(b, mv, ws, bs) ==
    [size |-> 3, board |-> b, move |-> mv, ws |-> ws, bs |-> bs, hash |-> 0,
     slides |-> FALSE]

\* The position as the client built it, square by square, under the
\* engine's hashing scheme.
Hashed(hs, p) == [p EXCEPT !.hash = HashOf(hs, p.board)]

\* White to move; black threatens 7-8-9, white wins on flats by blocking.
RootA == Pos(<<1, 2, 1, 0, 1, 0, 2, 0, 2>>, 6, 3, 3)
\* RootA after white's placement on square 8: the next position of the
\* same game, black to move.
RootA8 == Pos(<<1, 2, 1, 0, 1, 0, 2, 1, 2>>, 7, 2, 3)
\* White to move with a double threat to build against black's 3-6-9.
RootB == Pos(<<1, 0, 2, 0, 1, 2, 0, 2, 1>>, 6, 3, 3)
\* Black to move, one reserve stone each.
RootC == Pos(<<1, 1, 0, 2, 2, 0, 1, 0, 0>>, 5, 1, 1)
\* A finished game: white holds the road 1-2-3.
RootOver == Pos(<<1, 1, 1, 2, 2, 0, 0, 0, 0>>, 5, 3, 3)
\* A position of another board size.
RootWrong ==
    [size |-> 4, board |-> [k \in 1 .. 16 |-> 0], move |-> 0, ws |-> 15,
     bs |-> 15, hash |-> 0, slides |-> FALSE]

Roots == {RootA, RootA8, RootB, RootC, RootOver, RootWrong}

Ops == {"Analyze", "AnalyzeAll", "GetMove"}

BaseConfig ==
    [Size |-> 3, Depth |-> 0, Debug |-> 0, Seed |-> 1,
     RandomizeWindow |-> 0, RandomizeScale |-> 0,
     NoSort |-> FALSE, NoTable |-> FALSE, NoNullMove |-> FALSE,
     NoExtendForces |-> FALSE, NoReduceSlides |-> FALSE, NoMultiCut |-> FALSE,
     w |-> <<1, 1, 1, 1, 1, 1, 1, 1, 1>>, hs |-> 0, deadline |-> FALSE]

\* Two kinds of engine: a plain one (uniform weights, a primary slot per
\* board, no randomization, contexts without deadline) and one with
\* centre-heavy weights, shared primary slots, a randomization window and
\* contexts that carry a deadline.
Variants ==
    {BaseConfig,
     [BaseConfig EXCEPT !.w = <<1, 2, 1, 2, 3, 2, 1, 2, 1>>, !.hs = 1,
                        !.RandomizeWindow = 2, !.deadline = TRUE]}

Configs ==
    {NewMinimax(MakePrecise([c EXCEPT !.Depth = d]))
        : d \in 1 .. MaxCfgDepth, c \in Variants}

\* A newly built engine with a configuration of cs, on which n of the
\* MaxCalls calls count as made.
FreshOf(cs, n) ==
    /\ cfg \in cs
    /\ table = <<>>
    /\ history = <<>>
    /\ response = <<>>
    /\ st = ZeroStats
    /\ stackm = [k \in 0 .. (maxDepth - 1) |-> NoMove]
    /\ cancel = 0
    /\ frames = <<>>
    /\ ret = NoRet
    /\ drv = Idle
    /\ res = <<>>
    /\ calls = n
    /\ draws = 0
    /\ obs = NoObs

Fresh(n) == FreshOf(Configs, n)

Init == Fresh(0)

CallAny ==
    \E op \in Ops, p \in Roots : Call(op, Hashed(cfg.hs, p), cfg.deadline)

Next ==
    \/ CallAny
    \/ IterStart
    \/ IterDone
    \/ Finish
    \/ PostNext
    \/ PostResume
    \/ Enter
    \/ NextChild
    \/ Resume
    \/ Store
    \/ Signal

Spec == Init /\ [][Next]_vars

\* The steps of the calling goroutine: once a call is made it runs on until
\* it returns, whatever the signaller does.
Worker ==
    \/ IterStart
    \/ IterDone
    \/ Finish
    \/ PostNext
    \/ PostResume
    \/ Enter
    \/ NextChild
    \/ Resume
    \/ Store

\* An engine that serves a single call, under the fairness of the calling
\* goroutine.
OneCallInit == Fresh(MaxCalls - 1)

(***************************************************************************)
(* The re-search of a table entry: between two top-level calls, pvSearch   *)
(* is called at ply 0 on the position of an entry whose bound is lower or  *)
(* upper, to the entry's depth, with the one-point window below its value  *)
(* (lower) or above it (upper).  The contexts of the calls made before are *)
(* never cancelled.                                                        *)
(***************************************************************************)
\* The window (alpha, alpha + 1) of the re-search of entry te.
ReSearchAlpha(te) == IF te.bound = lowerBound THEN te.value - 1 ELSE te.value

ReSearch ==
    /\ drv.pc = "idle"
    /\ calls >= 1
    /\ cancel = 0
    /\ \E i \in DOMAIN table :
         /\ table[i].bound \in {lowerBound, upperBound}
         /\ frames' = <<NewFrame("pv", table[i].pos, 0, table[i].depth, <<>>,
                                 ReSearchAlpha(table[i]),
                                 ReSearchAlpha(table[i]) + 1, FALSE)>>
         /\ drv' = [Idle EXCEPT !.op = "ReSearch", !.pc = "research",
                                !.p = table[i].pos]
         /\ obs' = [NoObs EXCEPT !.an = table[i]]
    /\ ret' = NoRet
    /\ UNCHANGED <<cfg, table, history, response, st, stackm, cancel, res,
                   calls, draws>>

ReSearchDone ==
    /\ drv.pc = "research"
    /\ frames = <<>>
    /\ ret.set
    /\ res' = Append(res, [op |-> "ReSearch", p |-> drv.p, panic |-> "",
                           te |-> obs.an, v |-> ret.v, nil |-> ret.nil])
    /\ drv' = [Idle EXCEPT !.pc = "done"]
    /\ ret' = NoRet
    /\ UNCHANGED <<cfg, table, history, response, st, stackm, cancel, frames,
                   calls, draws, obs>>

(***************************************************************************)
(* Engines with the pruning heuristics on: null move and multi-cut.  Each  *)
(* serves one call, on an opening position of the 3x3 board or a           *)
(* middle-game position of the 4x4 board, where a search runs deep enough  *)
(* for a null move below a multi-cut pre-scan.                             *)
(***************************************************************************)
\* The depth of the 3x3 engines with the heuristics on; the 4x4 engine
\* searches two plies deeper.
HeurDepth == 6

\* Black to move after white's first stone in the centre.
RootOpen == Pos(<<0, 0, 0, 0, 1, 0, 0, 0, 0>>, 1, 9, 10)

\* A 4x4 middle game, black to move, seven squares empty.
Root4 ==
    [size |-> 4,
     board |-> <<1, 2, 2, 0,  2, 1, 0, 0,  1, 0, 2, 1,  0, 0, 1, 0>>,
     move |-> 9, ws |-> 10, bs |-> 11, hash |-> 0, slides |-> FALSE]

HeurRoots == {RootOpen, Root4}

\* On the 3x3 board the default configuration, and one with the null move
\* alone turned off.
HeurConfigs3 ==
    {NewMinimax(c) :
        c \in {[BaseConfig EXCEPT !.Depth = HeurDepth],
               [BaseConfig EXCEPT !.Depth = HeurDepth, !.NoNullMove = TRUE]}}

\* On the 4x4 board the default configuration.
HeurConfigs4 ==
    {NewMinimax([BaseConfig EXCEPT !.Depth = HeurDepth + 1, !.Size = 4,
                                   !.w = [k \in 1 .. 16 |-> 1]])}

HeurConfigs == HeurConfigs3 \cup HeurConfigs4

HeurInit == FreshOf(HeurConfigs, MaxCalls - 1)

HeurCall ==
    \E p \in HeurRoots :
        /\ Size(p) = cfg.Size
        /\ Call("Analyze", Hashed(cfg.hs, p), FALSE)

\* The steps of Analyze and of the search below it.
Searcher ==
    \/ IterStart
    \/ IterDone
    \/ Finish
    \/ Enter
    \/ NextChild
    \/ Resume
    \/ Store

HeurNext == HeurCall \/ Searcher

HeurSpec == HeurInit /\ [][HeurNext]_vars

(***************************************************************************)
(* A game in progress on an engine whose table has colliding keys: the     *)
(* opening position and the positions after two of black's replies, each   *)
(* analysed with every heuristic off.                                      *)
(***************************************************************************)
TabDepth == 4

TabConfigs ==
    {NewMinimax(MakePrecise([BaseConfig EXCEPT !.Depth = TabDepth, !.hs = 2]))}

TabRoots == {RootOpen, ApplyMove(0, RootOpen, 1), ApplyMove(0, RootOpen, 2)}

TabCall == \E p \in TabRoots : Call("Analyze", Hashed(cfg.hs, p), FALSE)

TabNext == TabCall \/ Searcher

TabSpec == FreshOf(TabConfigs, 0) /\ [][TabNext]_vars

\* The same game on an engine whose keys fall on slots of which two are
\* their own secondary slot.
SlotConfigs ==
    {NewMinimax(MakePrecise([BaseConfig EXCEPT !.Depth = TabDepth, !.hs = 3]))}

SlotCall == \E p \in TabRoots : Call("Analyze", Hashed(cfg.hs, p), FALSE)

SlotNext == SlotCall \/ Searcher

SlotSpec == FreshOf(SlotConfigs, 0) /\ [][SlotNext]_vars

(***************************************************************************)
(* A game with slides, on engines that reduce the depth after a slide.     *)
(***************************************************************************)
SlideDepth == 2

SlideConfigs ==
    {NewMinimax(c) :
        c \in {[BaseConfig EXCEPT !.Depth = SlideDepth],
               [BaseConfig EXCEPT !.Depth = SlideDepth, !.NoNullMove = TRUE,
                                  !.NoMultiCut = TRUE]}}

\* White to move, two flats each on the board.
RootSlide ==
    [Pos(<<1, 2, 0, 0, 1, 0, 0, 0, 2>>, 4, 8, 8) EXCEPT !.slides = TRUE]

SlideCall == Call("Analyze", Hashed(cfg.hs, RootSlide), FALSE)

SlideNext == SlideCall \/ Searcher

SlideSpec == FreshOf(SlideConfigs, MaxCalls - 1) /\ [][SlideNext]_vars

SoundNext == CallAny \/ HeurCall \/ Worker \/ ReSearch \/ ReSearchDone

SoundInit == Init \/ FreshOf(HeurConfigs3, MaxCalls - 1)

SoundSpec == SoundInit /\ [][SoundNext]_vars

(***************************************************************************)
(* Engines that randomize their move: GetMove with a randomization window  *)
(* and a scale of 1 and more, on contexts that are never cancelled.        *)
(***************************************************************************)
\* The largest RandomizeScale of the family.
MaxScale == 3

RandConfigs ==
    {NewMinimax(MakePrecise([BaseConfig EXCEPT !.Depth = d,
                                !.w = <<1, 2, 1, 2, 3, 2, 1, 2, 1>>,
                                !.RandomizeWindow = MaxScale - 1,
                                !.RandomizeScale = sc]))
        : d \in 1 .. MaxCfgDepth, sc \in 1 .. MaxScale}

RandRoots == {RootA, RootB, RootC}

RandCall == \E p \in RandRoots : Call("GetMove", Hashed(cfg.hs, p), FALSE)

RandNext == RandCall \/ Worker

RandSpec == FreshOf(RandConfigs, MaxCalls - 1) /\ [][RandNext]_vars

(***************************************************************************)
(* An engine configured one ply deeper than the search stack is long, on   *)
(* the 4x4 board with slides.  The first call analyses a position in which *)
(* either side's next placement is its last stone; the second a position   *)
(* of a game with more stones per side whose board is that of the first    *)
(* call's principal child, so that its deepening starts above the depth    *)
(* the table holds for that board.                                         *)
(***************************************************************************)
DeepDepth == maxDepth + 1

DeepConfigs ==
    {NewMinimax(MakePrecise([BaseConfig EXCEPT !.Depth = DeepDepth,
                                               !.Size = 4,
                                               !.w = [k \in 1 .. 16 |-> 1]]))}

\* White to move with two stones left against black's one.
RootTie ==
    [size |-> 4,
     board |-> <<0, 0, 0, 0,  2, 0, 0, 0,  0, 0, 0, 0,  0, 0, 0, 1>>,
     move |-> 2, ws |-> 2, bs |-> 1, hash |-> 0, slides |-> TRUE]

\* The board after white's placement on square 1, black to move, eight
\* stones each.
RootDeep ==
    [size |-> 4,
     board |-> <<1, 0, 0, 0,  2, 0, 0, 0,  0, 0, 0, 0,  0, 0, 0, 1>>,
     move |-> 3, ws |-> 8, bs |-> 8, hash |-> 0, slides |-> TRUE]

DeepCall ==
    \/ calls = 0 /\ Call("Analyze", Hashed(cfg.hs, RootTie), FALSE)
    \/ calls = 1 /\ Call("Analyze", Hashed(cfg.hs, RootDeep), FALSE)

DeepNext == DeepCall \/ Searcher

DeepSpec == FreshOf(DeepConfigs, 0) /\ [][DeepNext]_vars

FairSpec == OneCallInit /\ [][Next]_vars /\ WF_vars(Worker)

(***************************************************************************)
(* Properties.                                                             *)
(***************************************************************************)
\* A finished Analyze whose context was never cancelled.
Undisturbed(r) == r.op = "Analyze" /\ r.panic = "" /\ r.sig = "none"

\* C1: when Analyze(p) is called twice in a row on one engine (table
\* enabled, no cancellation, no deadline), the second call returns the value
\* of the first and its statistics count at least one table shortcut.
\* Stated for the positions where the game is still on.
C1_RepeatReturnsSame ==
    (/\ Len(res) = 2
     /\ ~GameOver(res[1].p)[1]
     /\ ~cfg.NoTable
     /\ ~cfg.deadline
     /\ Undisturbed(res[1])
     /\ Undisturbed(res[2])
     /\ res[1].p = res[2].p)
    => /\ res[2].an.v = res[1].an.v
       /\ res[2].an.st.TTShortcut >= 1

\* The finished calls in which Analyze ran to its return.
Analyzed == {k \in 1 .. Len(res) : res[k].panic # "Analyze: wrong size"}

\* Analyze returned what the last iteration adopted with the flag clear gave
\* (or the seed when there was none) and reported the cancellation.
ReturnsLastCompleted(a) ==
    /\ a.st.Canceled
    /\ a.pv = a.good.pv
    /\ a.v = a.good.v

\* C2 as stated: when the flag is set at any point during Analyze, the PV and
\* value returned are those of the last iteration completed before the flag
\* was observed, and the statistics have Canceled = true.
C2_AnyPointCanceled ==
    \A k \in Analyzed :
        res[k].an.sig = "analyze" => ReturnsLastCompleted(res[k].an)

\* C2, amended: when the driver's check after an iteration finds the flag
\* set, the PV and value returned are those of the last iteration adopted
\* with the flag clear and the statistics have Canceled = true.
C2_SeenCanceled ==
    \A k \in Analyzed :
        res[k].an.seen = 1 => ReturnsLastCompleted(res[k].an)

\* A call cancelled in its second or a later iteration has returned.
C2_Witness ==
    \E k \in Analyzed :
        /\ res[k].an.seen = 1
        /\ res[k].an.adopted >= 1
        /\ res[k].an.pv # <<>>
        /\ res[k].an.st.Canceled

\* Analyze is running: between its entry and its return.
InAnalyze == drv.pc \in {"iter", "search", "fin"}

\* Every active invocation eventually returns, and so does Analyze.
CancelReturns ==
    /\ (cancel # 0 /\ frames # <<>>) ~> (frames = <<>>)
    /\ (cancel # 0 /\ InAnalyze) ~> ~InAnalyze

\* With the flag set, an invocation that takes a child's return in its child
\* loop does not go on to the next child: it cuts or it returns.
PollsEveryNode ==
    [][(/\ cancel # 0
        /\ frames # <<>>
        /\ Top.pc = "wait"
        /\ Top.wk \in {"first", "scout", "research", "main"}
        /\ Len(frames') = Len(frames))
       => frames'[Len(frames')].pc = "store"]_vars

C4_NoPoisoning ==
    /\ [](\A i \in DOMAIN table : ~table[i].wr)
    /\ [][(frames # <<>> /\ Top.pc = "store" /\ Top.taint)
            => table' = table]_vars

\* A node that saw a child search abandoned is at its table write, and the
\* primary slot of its position is taken.
C4_Witness ==
    /\ frames # <<>>
    /\ Top.pc = "store"
    /\ Top.taint
    /\ ~cfg.NoTable
    /\ At(table, Slot1(Hash(Top.p))).hash # 0

\* C5: a call with a position of another size than the engine's fails with
\* the configuration error and leaves the table, the history and response
\* tables, the statistics, the stack, the flag and the generator as they
\* were; a call with a position of the engine's size does not fail there.
C5_WrongSizeLeavesEngine ==
    [][calls' # calls
       => IF drv'.pc = "panic"
          THEN /\ Len(res') = Len(res) + 1
               /\ res'[Len(res')].panic = "Analyze: wrong size"
               /\ Size(res'[Len(res')].p) # cfg.Size
               /\ engine' = engine
          ELSE /\ Size(drv'.p) = cfg.Size
               /\ res' = res]_vars

\* A used engine, its history counters and table filled, has refused a
\* position of another size.
C5_Witness ==
    /\ drv.pc = "panic"
    /\ res[Len(res)].panic = "Analyze: wrong size"
    /\ \E k \in DOMAIN history : history[k] > 0
    /\ DOMAIN table # {}

\* C6: on a position of the engine's size, whenever the cancellation comes,
\* Analyze, AnalyzeAll and GetMove return without a runtime failure: no
\* index or slice of the returned line out of range, no other fatal path.
C6_NoRuntimeFailure ==
    \A k \in 1 .. Len(res) :
        Size(res[k].p) = cfg.Size => res[k].panic = ""

\* The moves of a line are legal placements, each in the position the
\* moves before it lead to from p; After is that position.
RECURSIVE LegalLine(_, _), After(_, _)
LegalLine(p, ms) ==
    \/ ms = <<>>
    \/ /\ Head(ms) \in Squares(p.size)
       /\ MoveOK(p, Head(ms))
       /\ LegalLine(ApplyMove(cfg.hs, p, Head(ms)), Tail(ms))

After(p, ms) ==
    IF ms = <<>> THEN p ELSE After(ApplyMove(cfg.hs, p, Head(ms)), Tail(ms))

\* The line ends at a finished game or d plies from the root.
EndsAtHorizon(p, pv, d) == GameOver(After(p, pv))[1] \/ Len(pv) = d

\* The calls that searched at least one depth and dropped no iteration.
Searched ==
    {k \in Analyzed : ~res[k].an.st.Canceled /\ res[k].an.depths # <<>>}

RECURSIVE Wins(_, _), Loses(_, _)
Wins(p, d) ==
    IF GameOver(p)[1] THEN GameOver(p)[2] = ToMove(p)
    ELSE IF d = 0 THEN FALSE
    ELSE \E k \in DOMAIN AllMoves(p) :
            Loses(ApplyMove(cfg.hs, p, AllMoves(p)[k]), d - 1)

Loses(p, d) ==
    IF GameOver(p)[1] THEN GameOver(p)[2] \notin {ToMove(p), NoColor}
    ELSE IF d = 0 THEN FALSE
    ELSE \A k \in DOMAIN AllMoves(p) :
            Wins(ApplyMove(cfg.hs, p, AllMoves(p)[k]), d - 1)

\* C7: an engine with the MakePrecise flags, searching position p to its
\* depth d without being cancelled, returns a value above the win threshold
\* exactly when exhaustive minimax gives the side to move a forced win
\* within d plies.
C7_PreciseWin ==
    \A k \in 1 .. Len(res) :
        (Undisturbed(res[k]) /\ ~cfg.deadline)
        => (res[k].an.v > WinThreshold <=> Wins(res[k].p, cfg.Depth))

\* The same for the first call made on a newly built engine.
C7_FirstCall ==
    (Len(res) >= 1 /\ Undisturbed(res[1]) /\ ~cfg.deadline)
        => (res[1].an.v > WinThreshold <=> Wins(res[1].p, cfg.Depth))

\* Exhaustive negamax of p to depth d with the engine's evaluator.
RECURSIVE Negamax(_, _)
Negamax(p, d) ==
    IF d <= 0 \/ GameOver(p)[1] THEN Evaluate(cfg.w, p)
    ELSE LET vs == {-Negamax(ApplyMove(cfg.hs, p, AllMoves(p)[k]), d - 1)
                        : k \in DOMAIN AllMoves(p)}
         IN  CHOOSE v \in vs : \A u \in vs : u <= v

\* The lines of out that start with move m.
LinesOf(out, m) == {i \in DOMAIN out : out[i] # <<>> /\ out[i][1] = m}

\* The returns of AnalyzeAll.
AllReturned == {k \in 1 .. Len(res) : res[k].op = "AnalyzeAll" /\ res[k].panic = ""}

\* C9: the first line AnalyzeAll returns is the line of Analyze, and every
\* root move whose re-search gave the value v of Analyze starts exactly one
\* returned line, the first move of the principal line included; no move
\* starts two lines.  On a newly built engine that is not cancelled, the
\* moves that start a line are the moves whose exhaustive value is v.
C9_AllBestOnce ==
    \A k \in AllReturned :
        /\ res[k].out[1] = res[k].an.pv
        /\ \A j \in DOMAIN res[k].cvs :
              /\ Cardinality(LinesOf(res[k].out, res[k].cvs[j][1])) <= 1
              /\ res[k].cvs[j][2] = res[k].an.v
                 => Cardinality(LinesOf(res[k].out, res[k].cvs[j][1])) = 1
        /\ (k = 1 /\ res[k].sig = "none" /\ ~res[k].an.st.Canceled)
           => \A j \in DOMAIN AllMoves(res[k].p) :
                LET m == AllMoves(res[k].p)[j]
                IN  -Negamax(ApplyMove(cfg.hs, res[k].p, m), res[k].an.st.Depth - 1)
                        = res[k].an.v
                    <=> LinesOf(res[k].out, m) # {}

\* AnalyzeAll has returned more than one line: the principal line, whose
\* first move was searched again and gave v, and another move of value v.
C9_Witness ==
    \E k \in AllReturned :
        /\ Len(res[k].out) >= 2
        /\ \E j \in DOMAIN res[k].cvs :
              /\ res[k].cvs[j][1] = res[k].an.pv[1]
              /\ res[k].cvs[j][2] = res[k].an.v
        /\ res[k].an.st.Depth >= 2

\* The GetMove calls on a position of the engine's size whose analysis gave
\* a value that bypasses the randomization.
Bypassed ==
    {k \in 1 .. Len(res) : /\ res[k].op = "GetMove"
                          /\ Size(res[k].p) = cfg.Size
                          /\ Bypass(cfg.RandomizeWindow, res[k].an.v)}

\* C10: with a randomization window of 0, or an analysed value beyond the
\* win threshold, GetMove returns the first move of the line of Analyze,
\* runs no child re-search and draws nothing from the generator.
C10_ReturnsFirstMove ==
    \A k \in Bypassed :
        /\ res[k].panic = ""
        /\ res[k].an.pv # <<>>
        /\ res[k].move = res[k].an.pv[1]
        /\ res[k].posts = 0
        /\ res[k].draws = 0

\* The same for the calls whose analysis returned a line: no re-search and
\* no draw in any bypassed call.
C10_WhenLine ==
    \A k \in Bypassed :
        /\ res[k].posts = 0
        /\ res[k].draws = 0
        /\ res[k].an.pv # <<>>
           => res[k].panic = "" /\ res[k].move = res[k].an.pv[1]

\* C11: with a seed other than 0, two uncancelled Analyze calls on the same
\* position, made one after the other on one engine, return the same line
\* and the same value.
C11_FixedSeedSame ==
    (/\ Len(res) = 2 /\ cfg.Seed # 0 /\ ~cfg.deadline
     /\ Undisturbed(res[1]) /\ Undisturbed(res[2]) /\ res[1].p = res[2].p)
    => /\ res[2].an.pv = res[1].an.pv
       /\ res[2].an.v = res[1].an.v

\* C12: the step that enters Analyze past its size check replaces every
\* history counter c by c div 2 and runs no search step; no other step
\* lowers a counter.  So a counter no cut incremented during N calls is at
\* most its initial value divided by 2^N.
C12_AgedAtEntry ==
    [][IF calls' # calls /\ drv'.pc # "panic"
       THEN /\ DOMAIN history' = DOMAIN history
            /\ \A k \in DOMAIN history : history'[k] = history[k] \div 2
            /\ frames' = <<>> /\ table' = table /\ st' = st
       ELSE \A k \in DOMAIN history :
                k \in DOMAIN history' /\ history'[k] >= history[k]]_vars

\* The second call on an engine has just been entered: no iteration has
\* started, and a counter that a cut of the first call raised is still
\* positive after its halving.
C12_Witness ==
    /\ calls = 2 /\ drv.pc = "iter" /\ obs.depths = <<>> /\ frames = <<>>
    /\ \E k \in DOMAIN history : history[k] >= 1

\* The re-searches made.
ReSearched == {k \in 1 .. Len(res) : res[k].op = "ReSearch"}

\* C13: the re-search of an entry of bound lower, value v and depth d, with
\* window (v - 1, v) to depth d, returns at least v; the re-search of an
\* entry of bound upper, with window (v, v + 1), returns at most v.
C13_BoundsSound ==
    \A k \in ReSearched :
        /\ res[k].te.bound = lowerBound => res[k].v >= res[k].te.value
        /\ res[k].te.bound = upperBound => res[k].v <= res[k].te.value

(***************************************************************************)
(* The displacement copy of a table write.                                 *)
(***************************************************************************)
\* The step in which the invocation on top of the stack makes its table
\* write and returns.
StoreStep == frames # <<>> /\ Top.pc = "store" /\ frames' = Pop

\* ttPut returns nil: the table is off or the flag is set.
PutRefused == cfg.NoTable \/ PutCancelled(cancel)

\* C14: a table write for key h copies the primary entry to the secondary slot only if the primary slot holds a different key; if the primary slot is empty or holds h already, the secondary slot stays as it was.
C14_CopyOnlyForeign ==
    [][StoreStep =>
        LET h == Hash(Top.p)
            p1 == At(table, Slot1(h))
        IN  At(table', Slot2(h)) =
                IF ~PutRefused /\ p1.hash # 0 /\ p1.hash # h
                THEN p1 ELSE At(table, Slot2(h))]_vars

\* C14, amended: a table write for key h copies the primary entry to the secondary slot whenever the primary slot is occupied, by h itself or by another key; only if the primary slot is empty, or ttPut refuses the write, the secondary slot stays as it was.
C14_CopyWhenOccupied ==
    [][StoreStep =>
        LET h == Hash(Top.p)
            p1 == At(table, Slot1(h))
        IN  Slot2(h) # Slot1(h) =>
                At(table', Slot2(h)) =
                    IF ~PutRefused /\ p1.hash # 0
                    THEN p1 ELSE At(table, Slot2(h))]_vars

\* Some key sits in its primary and in its secondary slot at once, which
\* only a write for a key that held its primary slot already brings about.
C14_Witness ==
    \E i \in DOMAIN table :
        /\ table[i].hash # 0
        /\ i = Slot1(table[i].hash)
        /\ Slot2(table[i].hash) # i
        /\ At(table, Slot2(table[i].hash)).hash = table[i].hash

(***************************************************************************)
(* The replacement policy of pvSearch.                                     *)
(***************************************************************************)
\* What the program keeps in a table entry.
Stored(e) ==
    [hash |-> e.hash, depth |-> e.depth, value |-> e.value, bound |-> e.bound,
     m |-> e.m]

\* The table t holds the entry e in one of the two slots of its key.
Holds(t, e) ==
    \/ Stored(At(t, Slot1(e.hash))) = Stored(e)
    \/ Stored(At(t, Slot2(e.hash))) = Stored(e)

\* C15: when pvSearch stores a node of hash h searched at depth d, the entry ttGet(h) finds, in the primary or the secondary slot, is replaced only if d is at least its depth, and is otherwise still in the table with its depth, value, bound and move; an entry of another hash in the primary slot is replaced whatever its depth.
C15_DeeperEntryKept ==
    [][(StoreStep /\ Top.fn = "pv" /\ ~PutRefused) =>
        LET h == Hash(Top.p)
            old == At(table, ttGet(cfg.NoTable, table, h))
            p1 == At(table, Slot1(h))
        IN  /\ (ttGet(cfg.NoTable, table, h) # NilSlot /\ Top.depth < old.depth)
                   => Holds(table', old)
            /\ (p1.hash # 0 /\ p1.hash # h)
                   => /\ At(table', Slot1(h)).hash = h
                      /\ At(table', Slot1(h)).depth = Top.depth]_vars

(***************************************************************************)
(* The null move.                                                          *)
(***************************************************************************)
\* The move that the caller of the invocation on top of the stack played to
\* reach it: the move of the caller's running loop, the pass of its null
\* move, or the child the multi-cut scan drew from the generator; below the
\* post-pass of AnalyzeAll and GetMove, the move of that pass.
LedHere ==
    IF Len(frames) > 1
    THEN LET par == frames[Len(frames) - 1]
         IN  IF par.wk = "mc" THEN par.moves[par.mi] ELSE par.m
    ELSE drv.m

\* A zwSearch on top of the stack is past its terminal check and its table
\* probe, and takes its next step.
ZwPastProbe ==
    /\ Len(frames) > 1 /\ Top.fn = "zw" /\ Top.pc = "start"
    /\ ~AtLeaf(Top)
    /\ ~Probe(Top, Top.alpha + 1).cut
    /\ frames' # frames

NullAttempted ==
    /\ Len(frames') = Len(frames) + 1
    /\ frames'[Len(frames)].wk = "null"
    /\ frames'[Len(frames')].p = ApplyMove(cfg.hs, Top.p, PassMove)

NullAdmissible ==
    /\ ~cfg.NoNullMove
    /\ Top.ply > 0
    /\ Top.depth >= 3
    /\ LedHere # PassMove
    /\ WhiteStones(Top.p) >= 3 /\ BlackStones(Top.p) >= 3
    /\ Occupied(Top.p) + 3 < Len(Top.p.board)

\* Two invocations in a row were reached by a pass.
TwoPasses ==
    \E k \in 1 .. (Len(frames) - 2) :
        frames[k].wk = "null" /\ frames[k + 1].wk = "null"

\* C16: a zwSearch past its terminal check and table probe tries the null move exactly if the null move is on, ply > 0, depth >= 3, the move that led to the node is not a pass, both reserves hold 3 stones or more and fewer than squares - 3 squares are occupied; no line holds two passes in a row; with NoNullMove the counters NullSearch and NullCut stay 0.
C16_NullMoveIff ==
    [][/\ ZwPastProbe => (NullAttempted <=> NullAdmissible)
       /\ ~TwoPasses'
       /\ cfg.NoNullMove => st'.NullSearch = 0 /\ st'.NullCut = 0]_vars

(***************************************************************************)
(* recordCut.                                                              *)
(***************************************************************************)
\* The invocation on top of the stack takes a child's return and records a
\* cut by its move Top.m.
CutStep ==
    /\ frames # <<>> /\ Top.pc = "wait"
    /\ st'.CutNodes = st.CutNodes + 1

\* C17: a cut recorded at a node of ply > 0 sets the response entry keyed by the move that led from the parent to that node, whether the parent reached it from the pvSearch loop, the zwSearch main loop, the null move or the multi-cut scan; a cut at ply 0 leaves the response table unchanged.
C17_KeyedByPredecessor ==
    [][CutStep =>
        response' = IF Top.ply > 0 THEN SetMap(response, LedHere, Top.m)
                    ELSE response]_vars

\* C18: a cut in pvSearch or zwSearch adds exactly 2^depth to the history counter of the cutting move, depth being the remaining depth of the node that cuts, and changes no other counter; no history counter is ever negative.
C18_HistoryByDepth ==
    [][/\ CutStep =>
            /\ Top.depth >= 0
            /\ Hist(history', Top.m) = Hist(history, Top.m) + 2 ^ Top.depth
            /\ \A k \in (DOMAIN history \cup DOMAIN history') \ {Top.m} :
                    Hist(history', k) = Hist(history, k)
       /\ \A k \in DOMAIN history' : history'[k] >= 0]_vars

(***************************************************************************)
(* Multi-cut.                                                              *)
(***************************************************************************)
\* The zwSearch on top of the stack is in its multi-cut scan.
InScan == frames # <<>> /\ Top.fn = "zw" /\ Top.inMC

\* The frame that was on top, after the step.
TopAfter == frames'[Len(frames)]

\* C19: a zwSearch with cut set, depth > 3 and multi-cut on scans at most 6 children, each by a zero-window search at depth - 3; at the third that fails high it returns (nil, alpha + 1) at once, with no table write and no recorded cut; otherwise the generator is reset and the main loop starts from the first move.
C19_MultiCut ==
    [][/\ InScan' => /\ Top'.cut /\ Top'.depth > 3 /\ ~cfg.NoMultiCut
                     /\ Top'.i <= multiCutSearch /\ Top'.cuts < multiCutThreshold
       /\ (InScan /\ Top.pc = "loop" /\ Len(frames') > Len(frames)) =>
             \* the scan calls a child
             /\ Top.i < multiCutSearch
             /\ Top'.fn = "zw"
             /\ Top'.p = ApplyMove(cfg.hs, Top.p, Top.moves[Top.mi + 1])
             /\ Top'.depth = Top.depth - 3
             /\ Top'.alpha = -Top.alpha - 1 /\ Top'.beta = -Top.alpha
             /\ TopAfter.i = Top.i + 1
       /\ (InScan /\ Top.pc = "wait" /\ ret.set) =>
             \* the scan takes a child's return
             IF -ret.v > Top.alpha /\ Top.cuts + 1 = multiCutThreshold
             THEN /\ frames' = Pop
                  /\ ret'.set /\ ret'.nil /\ ret'.v = Top.alpha + 1
                  /\ table' = table /\ history' = history
                  /\ response' = response /\ st'.CutNodes = st.CutNodes
             ELSE /\ InScan'
                  /\ Top'.cuts = Top.cuts + (IF -ret.v > Top.alpha THEN 1 ELSE 0)
       /\ (InScan /\ Top.pc = "loop" /\ Len(frames') = Len(frames)
            /\ frames' # frames) =>
             \* the scan is over: mg.Reset()
             /\ Top.i = multiCutSearch \/ Top.mi = Len(Top.moves)
             /\ ~InScan'
             /\ Top' = [Top EXCEPT !.inMC = FALSE, !.mi = 0, !.i = 0]
       /\ (frames # <<>> /\ Top.fn = "zw" /\ ~Top.inMC /\ Top.pc = "loop"
            /\ Top.mi = 0 /\ Len(frames') > Len(frames)) =>
             \* the main loop starts with the first move
             Top'.p = ApplyMove(cfg.hs, Top.p, Top.moves[1])
       /\ (frames # <<>> /\ Top.fn = "zw"
            /\ (Top.pc = "start" \/ (Top.pc = "wait" /\ Top.wk = "null"))
            /\ frames' # frames /\ Len(frames') = Len(frames)
            /\ Top'.pc = "loop") =>
             \* the node sets up its loops, past the null move
             (InScan' <=> Top'.cut /\ Top'.depth > 3 /\ ~cfg.NoMultiCut)]_vars

\* A scan has returned by multi-cut, and another one, which searched six
\* children, has ended without it.
C19_Witness ==
    /\ st.MCCut > 0
    /\ InScan /\ Top.pc = "loop" /\ Top.i = multiCutSearch
    /\ Top.mi < Len(Top.moves)

(***************************************************************************)
(* Iterative deepening.                                                    *)
(***************************************************************************)
\* The calls that got past the size check of Analyze.
Analysed == {k \in 1 .. Len(res) : res[k].an # <<>>}

\* Analyze starts an iteration.
DeepenStep == drv.pc = "iter" /\ drv'.pc = "search"

\* C20: the root searches of one Analyze run at the depths base+1, base+2, ..., each one more than the one before and none beyond the configured depth; no iteration starts once one has completed with |v| > WinThreshold; the Depth of the returned statistics is the depth of the iteration that gave the returned line and value.
C20_Deepening ==
    [][/\ DeepenStep =>
            /\ obs'.depths = Append(obs.depths, drv.base + Len(obs.depths) + 1)
            /\ drv.base + Len(obs.depths) + 1 <= cfg.Depth
            /\ Len(frames') = 1
            /\ frames'[1].fn = "pv" /\ frames'[1].ply = 0
            /\ frames'[1].p = drv.p
            /\ frames'[1].depth = drv.base + Len(obs.depths) + 1
            /\ obs.adopted = Len(obs.depths)
            /\ ~(obs.adopted > 0 /\ Proved(drv.v))
       /\ \A k \in {j \in 1 .. Len(res') : res'[j].an # <<>>} :
            LET a == res'[k].an
            IN  a.adopted > 0 =>
                  /\ a.st.Depth = a.depths[a.adopted]
                  /\ a.st.Depth = a.base + a.adopted]_vars

\* An Analyze that started from a table entry of its root, completed two
\* iterations or more and has returned.
C20_Witness ==
    \E k \in Analysed :
        /\ res[k].an.base > 0
        /\ res[k].an.adopted >= 2
        /\ res[k].an.st.Depth = cfg.Depth

(***************************************************************************)
(* The weighted draw of GetMove.                                           *)
(***************************************************************************)
\* The step of GetMove's loop that takes the value of a child re-search
\* which exceeds base = v - RandomizeWindow.
CandidateStep ==
    /\ drv.pc = "postwait"
    /\ drv.op = "GetMove"
    /\ frames = <<>>
    /\ ret.set
    /\ -ret.v > drv.v - cfg.RandomizeWindow
    /\ drv'.pc # "postwait"

\* C21: in GetMove with a randomization window, whatever the scale and the
\* child score, the running total is positive at each draw, so the draw is
\* made and the loop goes on; and the first candidate above base is
\* selected.
C21_DrawDefined ==
    [][CandidateStep
         => /\ drv'.pc = "post"
            /\ drv'.tot > 0
            /\ draws' = draws + 1
            /\ drv.tot = 0 => drv'.rv = drv.m]_vars

(***************************************************************************)
(* The lines of AnalyzeAll under cancellation.                             *)
(***************************************************************************)
\* C22: every line AnalyzeAll returns after the principal one starts with
\* a root move whose child search ran to completion and gave, negated, the
\* value v of Analyze; a child search abandoned on the cancellation flag
\* never has its move returned.
C22_EmittedCompleted ==
    \A k \in AllReturned :
        \A i \in 2 .. Len(res[k].out) :
            \E j \in DOMAIN res[k].cvs :
                /\ res[k].cvs[j][1] = res[k].out[i][1]
                /\ res[k].cvs[j][2] = res[k].an.v
                /\ ~res[k].cvs[j][3]

(***************************************************************************)
(* The depth of the entries across table writes.                           *)
(***************************************************************************)
\* The keys the table holds.
Keys(t) == {t[i].hash : i \in DOMAIN t} \ {0}

\* The depth of the entry ttGet(h) returns.
DepthOf(t, h) == At(t, ttGet(cfg.NoTable, t, h)).depth

\* C23: across the table writes of pvSearch and zwSearch, the depth of the
\* entry ttGet(h) returns never decreases as long as ttGet(h) returns an
\* entry.
C23_DepthNeverDecreases ==
    [][\A h \in Keys(table) :
          ttGet(cfg.NoTable, table', h) # NilSlot
              => DepthOf(table', h) >= DepthOf(table, h)]_vars

\* C23, amended: a table write of pvSearch for key h at depth d leaves the
\* primary entry as it is when that entry belongs to h and is deeper than
\* d; every other write that ttPut does not refuse, every write of zwSearch
\* among them, puts h at depth d into the primary slot, whatever the depth
\* of the entry of h before.
C23_PvKeepsZwReplaces ==
    [][(StoreStep /\ ~PutRefused) =>
        LET h == Hash(Top.p)
            p1 == At(table, Slot1(h))
            n1 == At(table', Slot1(h))
        IN  IF Top.fn = "pv" /\ p1.hash = h /\ p1.depth > Top.depth
            THEN n1 = p1
            ELSE n1.hash = h /\ n1.depth = Top.depth]_vars

\* A write of zwSearch has put a shallower entry over a deeper one of the
\* same key: the deeper one is the copy in the secondary slot.
C23_Witness ==
    \E i \in DOMAIN table :
        /\ table[i].hash # 0
        /\ i = Slot1(table[i].hash)
        /\ Slot2(table[i].hash) # i
        /\ At(table, Slot2(table[i].hash)).hash = table[i].hash
        /\ At(table, Slot2(table[i].hash)).depth > table[i].depth
        /\ table[i].bound # exactBound

\* C24: every pvSearch/zwSearch node with remaining depth > 0 has
\* ply + depth <= the depth of the current root iteration and
\* 0 <= ply < maxDepth, and no call ends on an index past the end of the
\* search stack.
C24_StackInRange ==
    /\ \A i \in DOMAIN frames :
           frames[i].depth > 0 =>
               /\ frames[i].ply + frames[i].depth <= st.Depth
               /\ 0 <= frames[i].ply
               /\ frames[i].ply < maxDepth
    /\ \A k \in DOMAIN res : res[k].panic # "index out of range"

\* C25: when a store for key h is written while the primary slot of h holds
\* the entry of another key g of the same primary slot, ttGet(g) afterwards
\* finds that entry of g and ttGet(h) the entry just written, whatever the
\* slot.
C25_DisplacedStillFound ==
    [][(StoreStep /\ StoreTable(Top).writes) =>
        LET h == Hash(Top.p)
            g == At(table, Slot1(h))
            sg == ttGet(cfg.NoTable, table', g.hash)
            sh == ttGet(cfg.NoTable, table', h)
        IN  (g.hash # 0 /\ g.hash # h /\ Slot1(g.hash) = Slot1(h)) =>
                /\ sg # NilSlot
                /\ Stored(At(table', sg)) = Stored(g)
                /\ sh # NilSlot
                /\ At(table', sh).hash = h
                /\ At(table', sh).depth = Top.depth]_vars

====
